---- MODULE Spec2Model ----
(***************************************************************************)
(* Model of ens_sel.py: the validation split, the chunk partition, the     *)
(* setup of the EnsembleSelector and the online training loop that         *)
(* overlaps the fit of the current chunk with a background process that    *)
(* loads the next chunk into a shared manager dict.                        *)
(***************************************************************************)
EXTENDS Integers, Sequences, FiniteSets, TLC

\* ------------------------------------------------------------------ bounds
MaxDates == 4
MaxValSize == 3
MaxChunkSize == 2
MaxScalerFit == 2
MaxLoops == 2
MaxFailures == 2
MaxLoads == 3
MaxSpans == 2

\* ----------------------------------------------------------------- helpers
\* Python's None
None == <<>>

\* Python list(range(a, b))
Range(a, b) == IF b > a THEN [i \in 1..(b - a) |-> a + i - 1] ELSE <<>>

\* the slice stops one element early
SliceShort(s, a, b) ==
    LET hi == IF b - 1 < Len(s) THEN b - 1 ELSE Len(s)
    IN IF hi > a THEN [i \in 1..(hi - a) |-> s[a + i]] ELSE <<>>
\* Python s[a:b] for 0 <= a, 0 <= b
Slice(s, a, b) ==
    LET hi == IF b < Len(s) THEN b ELSE Len(s)
    IN IF hi > a THEN [i \in 1..(hi - a) |-> s[a + i]] ELSE <<>>

Elems(s) == {s[i] : i \in 1..Len(s)}

\* the chosen element stays in the list
RemoveNothing(s, x) == s
\* Python list.remove(x): drop the first occurrence of x
Remove(s, x) ==
    LET k == CHOOSE i \in 1..Len(s) : s[i] = x /\ \A m \in 1..(i - 1) : s[m] # x
    IN [i \in 1..(Len(s) - 1) |-> IF i < k THEN s[i] ELSE s[i + 1]]

RECURSIVE Insert(_, _)
Insert(s, x) ==
    IF s = <<>> THEN <<x>>
    ELSE IF x <= Head(s) THEN <<x>> \o s
    ELSE <<Head(s)>> \o Insert(Tail(s), x)

\* Python list.sort() on a list of integers
RECURSIVE Sort(_)
Sort(s) == IF s = <<>> THEN <<>> ELSE Insert(Sort(Tail(s)), Head(s))

\* the value of 'val' when it is none of the recognised strategies
Strategies == {"first", "last", "random", "middle"}

\* ------------------------------------------------------------------- state
VARIABLES
    val, num_dates, val_size, chunk_size, scaler_fit_size, loops,
    train_set, val_set, j, chunks, index,
    p_val, t_val, selector,
    pc, error, loop, chunk, first_chunk, predictors, targets, history,
    shared_chunk, procs, slot_log, primes, failures,
    files, loaded, predicted, day, result,
    disk, Data, requests, calls

config == <<val, num_dates, val_size, chunk_size, scaler_fit_size, loops>>
split == <<train_set, val_set, j>>
partition == <<chunks, index>>
setup == <<p_val, t_val, selector>>
training == <<loop, chunk, first_chunk, predictors, targets, history>>
workers == <<shared_chunk, procs, slot_log>>
instrumentation == <<primes>>
teardown == <<files, loaded, predicted, day, result>>
meso == <<disk, Data, requests, calls>>
vars == <<config, split, partition, setup, pc, error, training, workers, instrumentation,
          failures, teardown, meso>>

\* --------------------------------------------------- external collaborators
\* process_chunk on the dataset selected by the index list idx: the
\* (predictors, targets) sample arrays of exactly those initialization times
process_chunk(idx) == [p |-> <<"p", idx>>, t |-> <<"t", idx>>]

\* predictor_ds.isel(init_date=idx) accepts the indices of the archive,
\* counted from either end
IselOK(idx) == \A i \in 1..Len(idx) : idx[i] >= -num_dates /\ idx[i] < num_dates

\* the Sample Extractor may raise on a call (malformed slice, I/O error);
\* the number of injected failures per run is capped
CanFail == failures < MaxFailures

\* an uncaught exception at module level ends the script
Abort(e) == /\ pc' = "aborted"
            /\ error' = e

\* ---------------------------------------------------------------- the split
\* an unrecognised name falls into the 'last' branch
BranchDefaultLast(v) == IF v \in {"first", "random"} THEN v ELSE "last"
\* the branch of the if/elif chain on 'val' that is taken
Branch(v) == IF v \in {"first", "last", "random"} THEN v ELSE "else"

ValFirst(n, v) == Range(0, v)
\* the training range starts one index late
TrainFirstSkip(n, v) == Range(v + 1, n)
TrainFirst(n, v) == Range(v, n)
\* the validation range ends one index early
ValLastOff(n, v) == Range(n - v - 1, n - 1)
ValLast(n, v) == Range(n - v, n)
TrainLast(n, v) == Range(0, n - v)

\* the names of the per-day result lists of the reporting pass
Series == {"selector_scores", "selector_ranks", "verif_scores", "verif_ranks",
           "last_time_scores", "last_time_ranks"}
EmptySeries == [s \in Series |-> <<>>]

\* ------------------------------------------------------ MesoWest data files
\* the names a caller passes as 'file'; NoFile stands for file=None
MesoFiles == {"obs_a", "obs_b"}
NoFile == ""
\* the (start, end) pairs a caller asks for
Spans == 1..MaxSpans

\* 'file' as given, and '%s/%s' % (self._root_directory, file)
GivenPath(file) == <<".", file>>
RootPath(file) == <<"root", file>>
Paths == {GivenPath(f) : f \in MesoFiles} \cup {RootPath(f) : f \in MesoFiles}

\* a MesoWest instance as constructed, with no data file on disk
MesoNew ==
    /\ disk = [q \in Paths |-> None]
    /\ Data = None
    /\ requests = <<>>
    /\ calls = <<>>

Init ==
    /\ MesoNew
    /\ val \in Strategies
    /\ num_dates \in 0..MaxDates
    /\ val_size \in 0..MaxValSize
    /\ chunk_size \in 1..MaxChunkSize
    /\ scaler_fit_size \in 1..MaxScalerFit
    /\ loops \in 0..MaxLoops
    /\ train_set = <<>>
    /\ val_set = <<>>
    /\ j = 0
    /\ chunks = <<>>
    /\ index = 0
    /\ p_val = None
    /\ t_val = None
    /\ selector = [built |-> 0, init_fit |-> <<>>, fits |-> 0, evaluated |-> <<>>,
                   model |-> None]
    /\ pc = "split"
    /\ error = "none"
    /\ loop = 0
    /\ chunk = 0
    /\ first_chunk = TRUE
    /\ predictors = None
    /\ targets = None
    /\ history = <<>>
    /\ shared_chunk = [p |-> None, t |-> None]
    /\ procs = <<>>
    /\ slot_log = <<>>
    /\ primes = <<>>
    /\ failures = 0
    /\ files = [keras |-> None, pkl |-> None]
    /\ loaded = <<>>
    /\ predicted = None
    /\ day = 0
    /\ result = EmptySeries

SplitFirst ==
    /\ UNCHANGED <<instrumentation, teardown, meso>>
    /\ pc = "split"
    /\ Branch(val) = "first"
    /\ val_set' = ValFirst(num_dates, val_size)
    /\ train_set' = TrainFirst(num_dates, val_size)
    /\ pc' = "chunks"
    /\ UNCHANGED <<config, j, partition, setup, error, training, workers, failures>>

SplitLast ==
    /\ UNCHANGED <<instrumentation, teardown, meso>>
    /\ pc = "split"
    /\ Branch(val) = "last"
    /\ val_set' = ValLast(num_dates, val_size)
    /\ train_set' = TrainLast(num_dates, val_size)
    /\ pc' = "chunks"
    /\ UNCHANGED <<config, j, partition, setup, error, training, workers, failures>>

SplitRandom ==
    /\ UNCHANGED <<instrumentation, teardown, meso>>
    /\ pc = "split"
    /\ Branch(val) = "random"
    /\ train_set' = Range(0, num_dates)
    /\ val_set' = <<>>
    /\ j' = 0
    /\ pc' = "draw"
    /\ UNCHANGED <<config, partition, setup, error, training, workers, failures>>

\* one pass of 'for j in range(val_size)': random.choice raises IndexError
\* on an empty list
RandomDraw ==
    /\ UNCHANGED <<instrumentation, teardown, meso>>
    /\ pc = "draw"
    /\ j < val_size
    /\ IF train_set = <<>>
       THEN /\ Abort("IndexError")
            /\ UNCHANGED <<split>>
       ELSE /\ \E i \in Elems(train_set) :
                 /\ val_set' = Append(val_set, i)
                 /\ train_set' = Remove(train_set, i)
            /\ j' = j + 1
            /\ UNCHANGED <<pc, error>>
    /\ UNCHANGED <<config, partition, setup, training, workers, failures>>

RandomSort ==
    /\ UNCHANGED <<instrumentation, teardown, meso>>
    /\ pc = "draw"
    /\ j >= val_size
    /\ val_set' = Sort(val_set)
    /\ pc' = "chunks"
    /\ UNCHANGED <<config, train_set, j, partition, setup, error, training, workers, failures>>

SplitInvalid ==
    /\ UNCHANGED <<instrumentation, teardown, meso>>
    /\ pc = "split"
    /\ Branch(val) = "else"
    /\ Abort("ValueError")
    /\ UNCHANGED <<config, split, partition, setup, training, workers, failures>>

\* -------------------------------------------------------- chunk partition
ChunkAppend ==
    /\ UNCHANGED <<instrumentation, teardown, meso>>
    /\ pc = "chunks"
    /\ index < Len(train_set)
    /\ chunks' = Append(chunks, Slice(train_set, index, index + chunk_size))
    /\ index' = index + chunk_size
    /\ UNCHANGED <<config, split, setup, pc, error, training, workers, failures>>

ChunksDone ==
    /\ UNCHANGED <<instrumentation, teardown, meso>>
    /\ pc = "chunks"
    /\ index >= Len(train_set)
    /\ pc' = "load_val"
    /\ UNCHANGED <<config, split, partition, setup, error, training, workers, failures>>

\* ------------------------------------------------------------------- setup
LoadVal ==
    /\ UNCHANGED <<instrumentation, teardown, meso>>
    /\ pc = "load_val"
    /\ IF ~IselOK(val_set)
       THEN /\ Abort("IndexError")
            /\ UNCHANGED <<setup, failures>>
       ELSE \/ /\ p_val' = process_chunk(val_set).p
               /\ t_val' = process_chunk(val_set).t
               /\ pc' = "build"
               /\ UNCHANGED <<selector, error, failures>>
            \/ /\ CanFail
               /\ failures' = failures + 1
               /\ Abort("ExtractorError")
               /\ UNCHANGED <<setup>>
    /\ UNCHANGED <<config, split, partition, training, workers>>

BuildModel ==
    /\ UNCHANGED <<instrumentation, teardown, meso>>
    /\ pc = "build"
    /\ selector' = [selector EXCEPT !.built = @ + 1, !.model = <<"keras", 0>>]
    /\ pc' = "init_fit"
    /\ UNCHANGED <<config, split, partition, p_val, t_val, error, training, workers, failures>>

\* the normalizers are fitted on the first chunk
FitSetFirstChunk == Slice(train_set, 0, chunk_size)
\* fit_set = train_set[:scaler_fit_size]
FitSet == Slice(train_set, 0, scaler_fit_size)

InitFit ==
    /\ UNCHANGED <<instrumentation, teardown, meso>>
    /\ pc = "init_fit"
    /\ IF ~IselOK(FitSet)
       THEN /\ Abort("IndexError")
            /\ UNCHANGED <<setup, failures>>
       ELSE \/ /\ selector' = [selector EXCEPT
                                  !.init_fit = Append(@, process_chunk(FitSet))]
               /\ pc' = "train"
               /\ UNCHANGED <<p_val, t_val, error, failures>>
            \/ /\ CanFail
               /\ failures' = failures + 1
               /\ Abort("ExtractorError")
               /\ UNCHANGED <<setup>>
    /\ UNCHANGED <<config, split, partition, training, workers>>

\* ------------------------------------------------------ online training loop
\* number of the current inner iteration, counted over the whole run
Iter == loop * Len(chunks) + chunk

\* the loop stops one pass early
InRangeShort(i, n) == i < n - 1
\* 'for i in range(n)' has a further pass
InRange(i, n) == i < n

\* the outer loop runs its first pass unconditionally
MoreLoopsDoWhile == loop = 0 \/ InRange(loop, loops)
\* 'for loop in range(loops)' has a further pass
MoreLoops == InRange(loop, loops)

StartTraining ==
    /\ UNCHANGED <<instrumentation, teardown, meso>>
    /\ pc = "train"
    /\ first_chunk' = TRUE
    /\ shared_chunk' = [p |-> None, t |-> None]
    /\ history' = <<>>
    /\ loop' = 0
    /\ pc' = "loop_head"
    /\ UNCHANGED <<config, split, partition, setup, error, chunk, predictors, targets,
                   procs, slot_log, failures>>

LoopEnter ==
    /\ UNCHANGED <<instrumentation, teardown, meso>>
    /\ pc = "loop_head"
    /\ MoreLoops
    /\ chunk' = 0
    /\ pc' = "chunk_head"
    /\ UNCHANGED <<config, split, partition, setup, error, loop, first_chunk, predictors,
                   targets, history, workers, failures>>

LoopExit ==
    /\ UNCHANGED <<instrumentation, teardown, meso>>
    /\ pc = "loop_head"
    /\ ~MoreLoops
    /\ pc' = "evaluate"
    /\ UNCHANGED <<config, split, partition, setup, error, training, workers, failures>>

ChunkEnter ==
    /\ UNCHANGED <<instrumentation, teardown, meso>>
    /\ pc = "chunk_head"
    /\ InRange(chunk, Len(chunks))
    /\ predictors' = None
    /\ targets' = None
    /\ pc' = "get_batch"
    /\ UNCHANGED <<config, split, partition, setup, error, loop, chunk, first_chunk,
                   history, workers, failures>>

ChunkExit ==
    /\ UNCHANGED <<instrumentation, teardown, meso>>
    /\ pc = "chunk_head"
    /\ ~InRange(chunk, Len(chunks))
    /\ loop' = loop + 1
    /\ pc' = "loop_head"
    /\ UNCHANGED <<config, split, partition, setup, error, chunk, first_chunk, predictors,
                   targets, history, workers, failures>>

\* the flag is never cleared
FirstChunkStaysSet == TRUE
\* the value 'first_chunk' takes once the initial set has been loaded
FirstChunkAfterPrime == FALSE

Prime ==
    /\ pc = "get_batch"
    /\ first_chunk
    /\ primes' = Append(primes, <<loop, chunk>>)
    /\ UNCHANGED <<teardown, meso>>
    /\ IF ~IselOK(chunks[chunk + 1])
       THEN /\ Abort("IndexError")
            /\ UNCHANGED <<predictors, targets, first_chunk, failures>>
       ELSE \/ /\ predictors' = process_chunk(chunks[chunk + 1]).p
               /\ targets' = process_chunk(chunks[chunk + 1]).t
               /\ first_chunk' = FirstChunkAfterPrime
               /\ pc' = "start"
               /\ UNCHANGED <<error, failures>>
            \/ /\ CanFail
               /\ failures' = failures + 1
               /\ Abort("ExtractorError")
               /\ UNCHANGED <<predictors, targets, first_chunk>>
    /\ UNCHANGED <<config, split, partition, setup, loop, chunk, history, workers>>

\* shared_chunk['p'].copy(): a missing key raises KeyError
ReadP ==
    /\ UNCHANGED <<instrumentation, teardown, meso>>
    /\ pc = "get_batch"
    /\ ~first_chunk
    /\ IF shared_chunk.p = None
       THEN /\ Abort("KeyError")
            /\ UNCHANGED <<predictors, slot_log>>
       ELSE /\ predictors' = shared_chunk.p
            /\ slot_log' = Append(slot_log, <<"Rp", Iter>>)
            /\ pc' = "read_t"
            /\ UNCHANGED error
    /\ UNCHANGED <<config, split, partition, setup, loop, chunk, first_chunk, targets,
                   history, shared_chunk, procs, failures>>

ReadT ==
    /\ UNCHANGED <<instrumentation, teardown, meso>>
    /\ pc = "read_t"
    /\ IF shared_chunk.t = None
       THEN /\ Abort("KeyError")
            /\ UNCHANGED <<targets, slot_log>>
       ELSE /\ targets' = shared_chunk.t
            /\ slot_log' = Append(slot_log, <<"Rt", Iter>>)
            /\ pc' = "start"
            /\ UNCHANGED error
    /\ UNCHANGED <<config, split, partition, setup, loop, chunk, first_chunk, predictors,
                   history, shared_chunk, procs, failures>>

\* the last chunk does not wrap to chunk 0
NextChunkNoWrap(c, n) == IF c < n - 1 THEN c + 1 ELSE c
NextChunk(c, n) == IF c < n - 1 THEN c + 1 ELSE 0

\* multiprocessing.Process(target=subprocess_chunk, ...).start()
StartWorker ==
    /\ UNCHANGED <<instrumentation, teardown, meso>>
    /\ pc = "start"
    /\ LET next_chunk == NextChunk(chunk, Len(chunks))
       IN IF ~IselOK(chunks[next_chunk + 1])
          THEN /\ Abort("IndexError")
               /\ UNCHANGED procs
          ELSE /\ procs' = Append(procs, [iter |-> Iter,
                                          chunk |-> next_chunk,
                                          ds |-> chunks[next_chunk + 1],
                                          state |-> "started",
                                          exitcode |-> -1])
               /\ pc' = "fit"
               /\ UNCHANGED error
    /\ UNCHANGED <<config, split, partition, setup, training, shared_chunk, slot_log, failures>>

FitCall ==
    /\ UNCHANGED <<instrumentation, teardown, meso>>
    /\ pc = "fit"
    /\ pc' = "fitting"
    /\ UNCHANGED <<config, split, partition, setup, error, training, workers, failures>>

\* the fit validates against the batch it trains on
ValidationDataTrain == <<predictors, targets>>
\* validation_data=(p_val, t_val)
ValidationData == <<p_val, t_val>>

\* history = [hist]: the list is rebuilt on every fit
HistoryReplace(h, hist) == <<hist>>
\* history.append(hist)
HistoryAppend(h, hist) == Append(h, hist)

FitReturn ==
    /\ UNCHANGED <<instrumentation, teardown, meso>>
    /\ pc = "fitting"
    /\ selector' = [selector EXCEPT !.fits = @ + 1, !.model = <<"keras", selector.fits + 1>>]
    /\ history' = HistoryAppend(history, [loop |-> loop, chunk |-> chunk,
                                          p |-> predictors, t |-> targets,
                                          validation_data |-> ValidationData])
    /\ pc' = "join"
    /\ UNCHANGED <<config, split, partition, p_val, t_val, error, loop, chunk, first_chunk,
                   predictors, targets, workers, failures>>

\* the main flow waits until the process has exited normally
JoinWaitsForSuccess(w) == w.state = "exited" /\ w.exitcode = 0
\* the main flow does not wait for the process
JoinNoWait(w) == TRUE
\* process.join() returns once the process has terminated, whatever its
\* exit code
JoinReturns(w) == w.state = "exited"

Join ==
    /\ UNCHANGED <<instrumentation, teardown, meso>>
    /\ pc = "join"
    /\ JoinReturns(procs[Len(procs)])
    /\ chunk' = chunk + 1
    /\ pc' = "chunk_head"
    /\ UNCHANGED <<config, split, partition, setup, error, loop, first_chunk, predictors,
                   targets, history, workers, failures>>

Evaluate ==
    /\ UNCHANGED <<instrumentation, teardown, meso>>
    /\ pc = "evaluate"
    /\ selector' = [selector EXCEPT !.evaluated = Append(@, <<p_val, t_val>>)]
    /\ pc' = "save"
    /\ UNCHANGED <<config, split, partition, p_val, t_val, error, training, workers, failures>>

\* ------------------------------------------------------ save, predict, report
\* util.save_model: the native model goes to ${file_name}.keras, a deep copy
\* of the object with its 'model' attribute set to None to ${file_name}.pkl
save_model(fs, model) == [keras |-> model.model, pkl |-> [model EXCEPT !.model = None]]

\* util.load_model: the pickled object gets the native model re-attached;
\* the function body ends without a return statement
load_model(fs) ==
    LET model == [fs.pkl EXCEPT !.model = fs.keras]
    IN None

\* the copy is the caller's object itself, so its 'model' is set to None
ModelAfterSaveAliased(model) == [model EXCEPT !.model = None]
\* the caller's object once save_model has returned: 'model_copy' is a deep
\* copy, so setting its 'model' to None does not reach the caller
ModelAfterSave(model) == model

SaveModel ==
    /\ UNCHANGED meso
    /\ pc = "save"
    /\ files' = save_model(files, selector)
    /\ selector' = ModelAfterSave(selector)
    /\ pc' = "predict"
    /\ UNCHANGED <<config, split, partition, p_val, t_val, error, training, workers,
                   instrumentation, failures, loaded, predicted, day, result>>

\* predicted = selector.predict(p_val), then the empty result lists
Predict ==
    /\ UNCHANGED meso
    /\ pc = "predict"
    /\ IF selector.model = None
       THEN /\ Abort("AttributeError")
            /\ UNCHANGED <<predicted, result, day>>
       ELSE /\ predicted' = <<"prediction", selector.model, p_val>>
            /\ result' = EmptySeries
            /\ day' = 0
            /\ pc' = "report"
            /\ UNCHANGED error
    /\ UNCHANGED <<config, split, partition, setup, training, workers, instrumentation,
                   failures, files, loaded>>

\* the pass visits every initialization time of the archive
ReportDaysAll == Range(0, num_dates)
\* 'for day in val_set'
ReportDays == val_set

\* the entry one day contributes to a result list
DayEntry(s, d) == <<s, d>>

\* one pass of the loop: one append to each of the six lists
ReportDay ==
    /\ UNCHANGED meso
    /\ pc = "report"
    /\ day < Len(ReportDays)
    /\ result' = [s \in Series |-> Append(result[s], DayEntry(s, ReportDays[day + 1]))]
    /\ day' = day + 1
    /\ UNCHANGED <<config, split, partition, setup, pc, error, training, workers,
                   instrumentation, failures, files, loaded, predicted>>

ReportDone ==
    /\ pc = "report"
    /\ day >= Len(ReportDays)
    /\ pc' = "done"
    /\ UNCHANGED <<config, split, partition, setup, error, training, workers, instrumentation,
                   failures, teardown, meso>>

\* a later session loads the saved selector
LoadModel ==
    /\ UNCHANGED meso
    /\ pc = "done"
    /\ loaded = <<>>
    /\ loaded' = <<load_model(files)>>
    /\ UNCHANGED <<config, split, partition, setup, pc, error, training, workers,
                   instrumentation, failures, files, predicted, day, result>>

\* ------------------------------------------------------- background process
\* subprocess_chunk: p, t = process_chunk(ds, **sel); an exception ends the
\* child with exit code 1 before anything is written
WorkerLoad(w) ==
    /\ UNCHANGED <<instrumentation, teardown, meso>>
    /\ procs[w].state = "started"
    /\ \/ /\ procs' = [procs EXCEPT ![w].state = "write_p"]
          /\ UNCHANGED failures
       \/ /\ CanFail
          /\ procs' = [procs EXCEPT ![w].state = "exited", ![w].exitcode = 1]
          /\ failures' = failures + 1
    /\ UNCHANGED <<config, split, partition, setup, pc, error, training, shared_chunk, slot_log>>

\* shared['p'] = p
WorkerWriteP(w) ==
    /\ UNCHANGED <<instrumentation, teardown, meso>>
    /\ procs[w].state = "write_p"
    /\ shared_chunk' = [shared_chunk EXCEPT !.p = process_chunk(procs[w].ds).p]
    /\ slot_log' = Append(slot_log, <<"Wp", procs[w].iter>>)
    /\ procs' = [procs EXCEPT ![w].state = "write_t"]
    /\ UNCHANGED <<config, split, partition, setup, pc, error, training, failures>>

\* shared['t'] = t; return
WorkerWriteT(w) ==
    /\ UNCHANGED <<instrumentation, teardown, meso>>
    /\ procs[w].state = "write_t"
    /\ shared_chunk' = [shared_chunk EXCEPT !.t = process_chunk(procs[w].ds).t]
    /\ slot_log' = Append(slot_log, <<"Wt", procs[w].iter>>)
    /\ procs' = [procs EXCEPT ![w].state = "exited", ![w].exitcode = 0]
    /\ UNCHANGED <<config, split, partition, setup, pc, error, training, failures>>

\* ------------------------------------------------------------ MesoWest.load
\* os.path.isfile
IsFile(d, path) == d[path] # None

\* MesoWest.timeseries: the reformatted data of the requested period
timeseries(span) == <<"ts", span>>

\* the 'file_exists' flag of load
FileExists(d, file) ==
    file # NoFile /\ (IsFile(d, GivenPath(file)) \/ IsFile(d, RootPath(file)))

\* retrieved data are never written
WriteFileNever(d, file) == FALSE
\* the 'write_file' flag of load
WriteFile(d, file) ==
    file # NoFile /\ ~IsFile(d, GivenPath(file)) /\ ~IsFile(d, RootPath(file))

\* the path load opens for reading
ReadPath(d, file) ==
    IF IsFile(d, GivenPath(file)) THEN GivenPath(file) ELSE RootPath(file)

\* MesoWest.load(start, end, file): ok tells whether the remote request
\* returns or raises
MesoLoad(span, file, ok) ==
    /\ Len(calls) < MaxLoads
    /\ IF FileExists(disk, file)
       THEN /\ ok
            /\ Data' = disk[ReadPath(disk, file)]
            /\ UNCHANGED <<disk, requests>>
       ELSE /\ requests' = Append(requests, span)
            /\ IF ok
               THEN /\ disk' = IF WriteFile(disk, file)
                               THEN [disk EXCEPT ![GivenPath(file)] = timeseries(span)]
                               ELSE disk
                    /\ Data' = timeseries(span)
               ELSE UNCHANGED <<disk, Data>>
    /\ calls' = Append(calls, [file |-> file, span |-> span, ok |-> ok,
                               nreq |-> Len(requests')])
    /\ UNCHANGED <<config, split, partition, setup, pc, error, training, workers,
                   instrumentation, failures, teardown>>

\* a MesoWest instance on a disk that may hold data files of earlier sessions
InitMeso ==
    /\ disk \in [Paths -> {None, timeseries(0)}]
    /\ Data = None
    /\ requests = <<>>
    /\ calls = <<>>
    /\ val = "first"
    /\ num_dates = 0
    /\ val_size = 0
    /\ chunk_size = 1
    /\ scaler_fit_size = 1
    /\ loops = 0
    /\ train_set = <<>>
    /\ val_set = <<>>
    /\ j = 0
    /\ chunks = <<>>
    /\ index = 0
    /\ p_val = None
    /\ t_val = None
    /\ selector = [built |-> 0, init_fit |-> <<>>, fits |-> 0, evaluated |-> <<>>,
                   model |-> None]
    /\ pc = "split"
    /\ error = "none"
    /\ loop = 0
    /\ chunk = 0
    /\ first_chunk = TRUE
    /\ predictors = None
    /\ targets = None
    /\ history = <<>>
    /\ shared_chunk = [p |-> None, t |-> None]
    /\ procs = <<>>
    /\ slot_log = <<>>
    /\ primes = <<>>
    /\ failures = 0
    /\ files = [keras |-> None, pkl |-> None]
    /\ loaded = <<>>
    /\ predicted = None
    /\ day = 0
    /\ result = EmptySeries

NextMeso ==
    \E span \in Spans, file \in MesoFiles \cup {NoFile}, ok \in BOOLEAN :
        MesoLoad(span, file, ok)

SpecMeso == InitMeso /\ [][NextMeso]_vars

\* ------------------------------------------------------------ specification
Next ==
    \/ SplitFirst
    \/ SplitLast
    \/ SplitRandom
    \/ RandomDraw
    \/ RandomSort
    \/ SplitInvalid
    \/ ChunkAppend
    \/ ChunksDone
    \/ LoadVal
    \/ BuildModel
    \/ InitFit
    \/ StartTraining
    \/ LoopEnter
    \/ LoopExit
    \/ ChunkEnter
    \/ ChunkExit
    \/ Prime
    \/ ReadP
    \/ ReadT
    \/ StartWorker
    \/ FitCall
    \/ FitReturn
    \/ Join
    \/ Evaluate
    \/ SaveModel
    \/ Predict
    \/ ReportDay
    \/ ReportDone
    \/ LoadModel
    \/ \E w \in 1..Len(procs) : WorkerLoad(w)
    \/ \E w \in 1..Len(procs) : WorkerWriteP(w)
    \/ \E w \in 1..Len(procs) : WorkerWriteT(w)

Spec == Init /\ [][Next]_vars

\* the steps of the script itself
MainNext ==
    \/ SplitFirst \/ SplitLast \/ SplitRandom \/ RandomDraw \/ RandomSort \/ SplitInvalid
    \/ ChunkAppend \/ ChunksDone
    \/ LoadVal \/ BuildModel \/ InitFit
    \/ StartTraining \/ LoopEnter \/ LoopExit \/ ChunkEnter \/ ChunkExit
    \/ Prime \/ ReadP \/ ReadT \/ StartWorker \/ FitCall \/ FitReturn \/ Join
    \/ Evaluate \/ SaveModel \/ Predict \/ ReportDay \/ ReportDone

\* the steps of the background processes
WorkerNext ==
    \E w \in 1..Len(procs) : WorkerLoad(w) \/ WorkerWriteP(w) \/ WorkerWriteT(w)

\* the script keeps running while it is not blocked, and a started process
\* is scheduled until it exits: every call made terminates
FairSpec == Spec /\ WF_vars(MainNext) /\ WF_vars(WorkerNext)

TypeOK ==
    /\ pc \in {"split", "draw", "chunks", "load_val", "build", "init_fit", "train",
               "loop_head", "chunk_head", "get_batch", "read_t", "start", "fit",
               "fitting", "join", "evaluate", "save", "predict", "report", "done",
               "aborted"}
    /\ error \in {"none", "ValueError", "IndexError", "KeyError", "ExtractorError",
                  "AttributeError"}
    /\ failures \in 0..MaxFailures

\* ---------------------------------------------------------------- properties
NumChunks == Len(chunks)
Alive(w) == procs[w].state # "exited"
Kind(e) == e[1]
Tag(e) == e[2]
IsRead(e) == Kind(e) \in {"Rp", "Rt"}

\* the worker tag of the last write of 'kind' before position i of the
\* slot log, -1 when there is none
LastWriter(kind, i) ==
    LET W == {m \in 1..(i - 1) : Kind(slot_log[m]) = kind}
    IN IF W = {} THEN -1
       ELSE Tag(slot_log[CHOOSE m \in W : \A x \in W : x <= m])

\* the main flow is reading the shared dict
Reading == (pc = "get_batch" /\ ~first_chunk) \/ pc = "read_t"

\* C1: every read of the slot made in iteration k+1 finds both keys written
\* by the worker of iteration k: never a stale slot (last written by an
\* earlier worker) nor a partially written one.
C1_HandoffOrdering ==
    \A i \in 1..Len(slot_log) :
        IsRead(slot_log[i]) =>
            /\ LastWriter("Wp", i) = Tag(slot_log[i]) - 1
            /\ LastWriter("Wt", i) = Tag(slot_log[i]) - 1

\* C2: once the main flow is past the join of an iteration whose worker
\* failed, the run has aborted and no further fit call was made.
C2_FailurePropagates ==
    \A w \in 1..Len(procs) :
        (procs[w].exitcode = 1 /\ Iter > procs[w].iter) =>
            /\ pc = "aborted"
            /\ Len(history) <= procs[w].iter + 1

\* C3: the fit calls made so far are the first ones of the sequence
\* (loop 0, chunk 0), (loop 0, chunk 1), ... in loop-major order, and a run
\* that completes has made exactly loops * num_chunks of them.
C3_ExactlyOnceTraining ==
    /\ \A i \in 1..Len(history) :
          /\ NumChunks > 0
          /\ history[i].loop = (i - 1) \div NumChunks
          /\ history[i].chunk = (i - 1) % NumChunks
          /\ history[i].loop < loops
    /\ pc = "done" => Len(history) = loops * NumChunks

C3_Witness ==
    /\ pc = "done"
    /\ loops = 2
    /\ NumChunks = 3
    /\ Len(history) = 6

\* C4: the batch passed to every fit call is the materialization of the
\* chunk of that iteration.
C4_BatchIsChunk ==
    \A i \in 1..Len(history) :
        /\ history[i].p = process_chunk(chunks[history[i].chunk + 1]).p
        /\ history[i].t = process_chunk(chunks[history[i].chunk + 1]).t

\* C5: at most one worker is alive, no worker is alive when an iteration
\* starts, and no more workers have been started than iterations.
C5_BoundedOverlap ==
    /\ Cardinality({w \in 1..Len(procs) : Alive(w)}) <= 1
    /\ pc \in {"loop_head", "chunk_head", "get_batch", "read_t", "start", "evaluate", "done"}
          => \A w \in 1..Len(procs) : ~Alive(w)
    /\ \A w \in 1..Len(procs) : Alive(w) => (w = Len(procs) /\ pc \in {"fit", "fitting", "join"})
    /\ pc \in {"get_batch", "read_t", "start"} => Len(procs) = Iter
    /\ pc \in {"fit", "fitting", "join"} => Len(procs) = Iter + 1

C5_Witness ==
    /\ pc = "fitting"
    /\ Len(procs) >= 2
    /\ Alive(Len(procs))
    /\ procs[Len(procs) - 1].state = "exited"

\* C6: the w-th worker is started in iteration w-1, after the batch of that
\* iteration is obtained and before its fit, for chunk (c + 1) mod num_chunks;
\* a completed run has made loops * num_chunks prefetches.
C6_PrefetchSequence ==
    /\ \A w \in 1..Len(procs) :
          /\ NumChunks > 0
          /\ procs[w].iter = w - 1
          /\ procs[w].chunk = w % NumChunks
          /\ procs[w].ds = chunks[(w % NumChunks) + 1]
    /\ pc \in {"get_batch", "read_t", "start"} => Len(procs) = Len(history)
    /\ pc \in {"fit", "fitting"} => Len(procs) = Len(history) + 1
    /\ pc = "done" => Len(procs) = loops * NumChunks

C6_Witness ==
    /\ pc = "done"
    /\ loops = 2
    /\ [w \in 1..Len(procs) |-> procs[w].chunk] = <<1, 2, 0, 1, 2, 0>>

C8_PrimeOnce ==
    /\ Len(primes) <= 1
    /\ \A i \in 1..Len(primes) : primes[i] = <<0, 0>>
    /\ pc \in {"start", "fit", "fitting", "join"} =>
          /\ primes = << <<0, 0>> >>
          /\ Iter > 0 => /\ \E i \in 1..Len(slot_log) : slot_log[i] = <<"Rp", Iter>>
                         /\ \E i \in 1..Len(slot_log) : slot_log[i] = <<"Rt", Iter>>

C8_Witness ==
    /\ pc = "start"
    /\ loop = 1
    /\ chunk = 0
    /\ primes = << <<0, 0>> >>
    /\ predictors = shared_chunk.p

\* C9: after a worker started in iteration k has failed, the history holds
\* no record of an iteration later than k.
C9_FailureHistory ==
    \A w \in 1..Len(procs) :
        procs[w].exitcode = 1 => Len(history) <= procs[w].iter + 1

\* C10: for the three strategies and val_size <= num_dates the split yields
\* val_size validation indices, and train_set and val_set are disjoint,
\* without duplicates, and together hold exactly range(num_dates).
C10_SplitPartition ==
    (/\ val \in {"first", "last", "random"}
     /\ val_size <= num_dates
     /\ pc \notin {"split", "draw"}) =>
        /\ Len(val_set) = val_size
        /\ Len(train_set) + Len(val_set) = num_dates
        /\ Elems(train_set) \cap Elems(val_set) = {}
        /\ Elems(train_set) \cup Elems(val_set) = 0..(num_dates - 1)

C10_Witness ==
    /\ pc = "chunks"
    /\ val = "random"
    /\ num_dates = 4
    /\ val_set = <<1, 3>>
    /\ train_set = <<0, 2>>

RECURSIVE Concat(_)
Concat(cs) == IF cs = <<>> THEN <<>> ELSE Head(cs) \o Concat(Tail(cs))

Ascending(s) == \A a, b \in 1..Len(s) : a < b => s[a] < s[b]

\* C11: while the partition is built the chunks concatenate to the part of
\* train_set consumed so far; once it is built they concatenate to train_set,
\* every chunk but the last has chunk_size entries, the last has
\* len(train_set) mod chunk_size (chunk_size when that is 0), none is empty.
C11_ChunkPartition ==
    /\ pc = "chunks" => Concat(chunks) = Slice(train_set, 0, index)
    /\ pc \notin {"split", "draw", "chunks"} =>
          /\ Concat(chunks) = train_set
          /\ \A i \in 1..Len(chunks) :
                /\ Len(chunks[i]) >= 1
                /\ i < Len(chunks) => Len(chunks[i]) = chunk_size
                /\ i = Len(chunks) =>
                      Len(chunks[i]) = IF Len(train_set) % chunk_size = 0
                                       THEN chunk_size
                                       ELSE Len(train_set) % chunk_size

C11_Witness ==
    /\ pc = "load_val"
    /\ train_set = <<1, 2, 3>>
    /\ chunks = << <<1, 2>>, <<3>> >>

\* C12: with val_size <= num_dates, 'first' gives val_set = 0..val_size-1 and
\* train_set = val_size..num_dates-1, 'last' gives val_set =
\* num_dates-val_size..num_dates-1 and train_set = 0..num_dates-val_size-1,
\* all ascending.
C12_DeterministicSplit ==
    (val_size <= num_dates /\ pc \notin {"split", "draw"}) =>
        /\ val = "first" =>
              /\ val_set = [i \in 1..val_size |-> i - 1]
              /\ train_set = [i \in 1..(num_dates - val_size) |-> val_size + i - 1]
        /\ val = "last" =>
              /\ val_set = [i \in 1..val_size |-> num_dates - val_size + i - 1]
              /\ train_set = [i \in 1..(num_dates - val_size) |-> i - 1]

C12_Witness ==
    /\ pc = "chunks"
    /\ val = "last"
    /\ num_dates = 4
    /\ val_set = <<3>>
    /\ train_set = <<0, 1, 2>>

\* C13: with 'random' and val_size <= num_dates, after j draws val_set holds j
\* distinct indices, train_set the other num_dates - j in ascending order, and
\* after the sort val_set is strictly ascending.
C13_RandomSplit ==
    (val = "random" /\ val_size <= num_dates /\ pc # "split") =>
        /\ Len(train_set) + Len(val_set) = num_dates
        /\ Cardinality(Elems(val_set)) = Len(val_set)
        /\ Elems(train_set) \cap Elems(val_set) = {}
        /\ Elems(train_set) \cup Elems(val_set) = 0..(num_dates - 1)
        /\ Ascending(train_set)
        /\ Len(val_set) = j
        /\ pc # "draw" => (Ascending(val_set) /\ j = val_size)

C13_Witness ==
    /\ pc = "chunks"
    /\ val = "random"
    /\ num_dates = 3
    /\ val_set = <<0, 2>>
    /\ train_set = <<1>>

\* C14: when 'val' is none of the three strategies the run ends with
\* ValueError at the split step: no chunk is formed, no validation batch is
\* loaded, no model is built, no worker is started and no fit call is made.
C14_UnrecognisedStrategy ==
    val \notin {"first", "last", "random"} =>
        /\ pc \in {"split", "aborted"}
        /\ pc = "aborted" => error = "ValueError"
        /\ train_set = <<>> /\ val_set = <<>>
        /\ chunks = <<>>
        /\ p_val = None
        /\ selector.built = 0 /\ selector.init_fit = <<>> /\ selector.fits = 0
        /\ procs = <<>>
        /\ history = <<>>

C14_Witness ==
    /\ val = "middle"
    /\ pc = "aborted"
    /\ error = "ValueError"

AfterTraining == pc \in {"evaluate", "save", "predict", "report", "done"}

\* C15: with loops = 0 or an empty chunk list no fit call is made, no worker
\* is started, the slot is never written and the history stays empty, while a
\* run that gets past the loop has loaded the validation batch, built the
\* model and called init_fit, and the model is as built.
C15_EmptyTraining ==
    (loops = 0 \/ (pc \notin {"split", "draw", "chunks"} /\ chunks = <<>>)) =>
        /\ history = <<>>
        /\ selector.fits = 0
        /\ procs = <<>>
        /\ primes = <<>>
        /\ slot_log = <<>>
        /\ shared_chunk = [p |-> None, t |-> None]
        /\ pc \notin {"get_batch", "read_t", "start", "fit", "fitting", "join"}
        /\ AfterTraining =>
              /\ p_val = process_chunk(val_set).p
              /\ t_val = process_chunk(val_set).t
              /\ selector.built = 1
              /\ selector.init_fit = <<process_chunk(FitSet)>>
              /\ selector.model = <<"keras", 0>>

C15_Witness ==
    /\ pc = "done"
    /\ loops = 0
    /\ chunks # <<>>
    /\ selector.built = 1
    /\ Len(selector.init_fit) = 1

\* C16: evaluate is called at most once, exactly when the training loop has
\* been left, with the validation batch, after loops * num_chunks fit calls
\* have returned and with every worker terminated and joined.
C16_Teardown ==
    /\ Len(selector.evaluated) <= 1
    /\ Len(selector.evaluated) = 1 <=> pc \in {"save", "predict", "report", "done"}
    /\ Len(selector.evaluated) = 1 =>
          /\ selector.evaluated[1] = <<process_chunk(val_set).p, process_chunk(val_set).t>>
          /\ Len(history) = loops * NumChunks
          /\ selector.fits = loops * NumChunks
          /\ Len(procs) = loops * NumChunks
          /\ \A w \in 1..Len(procs) : ~Alive(w)

C16_Witness ==
    /\ pc = "save"
    /\ Len(selector.evaluated) = 1
    /\ Len(history) = 4
    /\ val_size > 0

\* C17: build_model and init_fit are each called at most once, both have been
\* called before any fit call starts, and every fit call validates against
\* the batch loaded from val_set during setup.
C17_SetupOrdering ==
    /\ selector.built <= 1
    /\ Len(selector.init_fit) <= 1
    /\ (pc \in {"fit", "fitting", "join"} \/ history # <<>> \/ selector.fits > 0) =>
          /\ selector.built = 1
          /\ selector.init_fit = <<process_chunk(FitSet)>>
    /\ \A i \in 1..Len(history) :
          /\ history[i].validation_data =
                <<process_chunk(val_set).p, process_chunk(val_set).t>>
          /\ history[i].validation_data = <<p_val, t_val>>

C17_Witness ==
    /\ Len(history) >= 2
    /\ val_size > 0
    /\ selector.built = 1
    /\ history[2].validation_data = <<p_val, t_val>>

\* C18: the history has one record per fit call that has returned, in
\* loop-major order, and every step keeps the records already there, adding
\* at most one at the end.
C18_HistoryAppendOnly ==
    /\ [](/\ Len(history) = selector.fits
          /\ \A i \in 1..Len(history) :
                (NumChunks > 0 /\ history[i].loop * NumChunks + history[i].chunk = i - 1))
    /\ [][/\ Len(history') >= Len(history)
          /\ Len(history') <= Len(history) + 1
          /\ SubSeq(history', 1, Len(history)) = history]_vars

C18_Witness ==
    /\ pc = "join"
    /\ loop = 1
    /\ NumChunks = 3
    /\ Len(history) = 4

\* C19: after k days of the reporting pass each of the six result lists has
\* k entries, entry i being that of val_set[i]; the pass ends with
\* len(val_set) entries in each list.
C19_ReportingPass ==
    /\ day <= Len(val_set)
    /\ \A s \in Series :
          /\ Len(result[s]) = day
          /\ \A i \in 1..Len(result[s]) : result[s][i] = DayEntry(s, val_set[i])
    /\ pc \notin {"report", "done"} => day = 0
    /\ pc = "done" => day = Len(val_set)

C19_Witness ==
    /\ pc = "done"
    /\ val_set = <<1, 3>>
    /\ day = 2
    /\ Len(result["verif_ranks"]) = 2

\* C20: load_model after save_model returns the saved object: its metadata
\* equals the selector's and its 'model' attribute is the saved native model.
C20_SaveLoadRoundTrip ==
    \A i \in 1..Len(loaded) :
        /\ loaded[i] = [files.pkl EXCEPT !.model = files.keras]
        /\ loaded[i] = selector

\* C22: save_model writes the native model to the .keras file and the object
\* with 'model' set to None to the .pkl file, writes nothing before, and
\* leaves the selector as it was, so that predict finds the native model.
C22_SaveModelFrame ==
    /\ [](/\ pc \in {"predict", "report", "done"} =>
                /\ selector.model = <<"keras", selector.fits>>
                /\ files.keras = selector.model
                /\ files.pkl = [selector EXCEPT !.model = None]
          /\ pc \in {"report", "done"} =>
                predicted = <<"prediction", <<"keras", selector.fits>>, p_val>>
          /\ (pc \notin {"predict", "report", "done"} /\ error # "AttributeError") =>
                files = [keras |-> None, pkl |-> None]
          /\ error # "AttributeError")
    /\ [][(pc = "save" /\ pc' # "save") =>
             /\ selector' = selector
             /\ files'.keras = selector.model
             /\ files'.pkl = [selector EXCEPT !.model = None]
             /\ DOMAIN files' = {"keras", "pkl"}]_vars

C22_Witness ==
    /\ pc = "report"
    /\ selector.fits = 2
    /\ files.keras = <<"keras", 2>>
    /\ files.pkl.model = None
    /\ selector.model = <<"keras", 2>>

Min(a, b) == IF a < b THEN a ELSE b

\* C23: init_fit is given the batch of the first min(scaler_fit_size,
\* len(train_set)) indices of train_set, whatever the chunk partition, and
\* none of these indices is in val_set.
C23_FitSample ==
    \A i \in 1..Len(selector.init_fit) :
        LET head == [k \in 1..Min(scaler_fit_size, Len(train_set)) |-> train_set[k]]
        IN /\ selector.init_fit[i] = process_chunk(head)
           /\ Elems(head) \cap Elems(val_set) = {}

C23_Witness ==
    /\ Len(selector.init_fit) = 1
    /\ chunk_size = 1
    /\ scaler_fit_size = 2
    /\ val_set # <<>>
    /\ Len(chunks) >= 2
    /\ selector.init_fit[1] = process_chunk(chunks[1] \o chunks[2])

\* C25: once the split has completed, every index of val_set and train_set
\* is an integer of range(num_dates) and no index occurs twice.
C25_IndexRange ==
    pc \notin {"split", "draw"} =>
        /\ Elems(val_set) \subseteq 0..(num_dates - 1)
        /\ Elems(train_set) \subseteq 0..(num_dates - 1)
        /\ Cardinality(Elems(val_set)) = Len(val_set)
        /\ Cardinality(Elems(train_set)) = Len(train_set)

\* C24: with every call terminating the run ends; it ends in an exception
\* only for an unrecognised strategy, val_size > num_dates or a failed
\* extractor call, and otherwise passes the training loop after
\* loops * num_chunks iterations with no worker alive.  The main flow always
\* has a step to take except at a join whose worker is alive, where it stays
\* until the worker exits.
C24_Termination ==
    /\ <>(pc \in {"done", "aborted"})
    /\ [](/\ pc = "aborted" =>
                (Branch(val) = "else" \/ val_size > num_dates \/ failures > 0)
          /\ AfterTraining =>
                /\ Len(history) = loops * NumChunks
                /\ \A w \in 1..Len(procs) : ~Alive(w)
          /\ pc \notin {"join", "done", "aborted"} => ENABLED MainNext
          /\ (pc = "join" /\ Alive(Len(procs))) => ~ENABLED MainNext)
    /\ [][(pc = "join" /\ Alive(Len(procs))) => pc' = "join"]_vars

C24_Witness ==
    /\ pc = "done"
    /\ failures = 0
    /\ loops = 2
    /\ NumChunks = 2
    /\ Len(history) = 4
    /\ \A w \in 1..Len(procs) : procs[w].exitcode = 0

\* the call a step has added to the log
LastCall == calls'[Len(calls')]

\* the k-th load made a remote request
Requested(k) == calls[k].nreq > (IF k = 1 THEN 0 ELSE calls[k - 1].nreq)

\* C21: a load whose 'file' exists, as given or under the root directory,
\* takes Data from it (the given path first), requests nothing and writes
\* nothing; a load whose 'file' exists in neither place makes one request
\* and, when it returns, writes the data to 'file' as given, so that a later
\* load with the same 'file' requests nothing; a load without 'file' makes
\* one request and writes nothing.
C21_LoadCaching ==
    /\ [][Len(calls') = Len(calls) + 1 =>
            LET f == LastCall.file
                here == f # NoFile /\ disk[GivenPath(f)] # None
                there == f # NoFile /\ disk[RootPath(f)] # None
            IN /\ (here \/ there) =>
                     /\ requests' = requests
                     /\ disk' = disk
                     /\ Data' = IF here THEN disk[GivenPath(f)] ELSE disk[RootPath(f)]
               /\ (f # NoFile /\ ~here /\ ~there) =>
                     /\ requests' = Append(requests, LastCall.span)
                     /\ LastCall.ok =>
                           /\ disk' = [disk EXCEPT ![GivenPath(f)] = <<"ts", LastCall.span>>]
                           /\ Data' = <<"ts", LastCall.span>>
                     /\ ~LastCall.ok => (disk' = disk /\ Data' = Data)
               /\ f = NoFile =>
                     /\ requests' = Append(requests, LastCall.span)
                     /\ disk' = disk
                     /\ LastCall.ok => Data' = <<"ts", LastCall.span>>]_vars
    /\ [](\A i, k \in 1..Len(calls) :
             (i < k /\ calls[i].file # NoFile /\ calls[i].file = calls[k].file
                    /\ calls[i].ok) => ~Requested(k))

C21_Witness ==
    /\ Len(calls) = 2
    /\ calls[1].file = "obs_a" /\ calls[1].span = 1 /\ calls[1].ok
    /\ calls[2].file = "obs_a" /\ calls[2].span = 2
    /\ requests = <<1>>
    /\ disk[GivenPath("obs_a")] = <<"ts", 1>>
    /\ Data = <<"ts", 1>>

====
